---------------------------- MODULE Spec2Model ----------------------------
(***************************************************************************)
(* A model of SwiftSLOUploader (src/swiftslouploader/swiftslouploader.py): *)
(* the planner functions, the recovery log (upload_cache), the bounded     *)
(* pool of segment workers, manifest assembly and the manifest commit.     *)
(*                                                                         *)
(* Three specifications are given.  SpecFn applies the pure planner, log   *)
(* and segment functions to inputs drawn from bounded sets.  Spec is the   *)
(* state machine of slo_upload over a temp directory that survives from    *)
(* run to run.  SpecLive is Spec without interruptions from outside and    *)
(* with every process scheduled, for the statements about termination.     *)
(***************************************************************************)
EXTENDS Integers, Naturals, Sequences, FiniteSets, TLC

(***************************************************************************)
(* Program constants.                                                      *)
(***************************************************************************)
\* The number of bytes in one megabyte, the literal 1048576 of the source.
MB == 1048576

\* The storage service's ceiling on the number of segments of one object.
SegmentLimit == 1000

\* The number of times upload_manifest_file is said to upload again.
ManifestRetries == 9

(***************************************************************************)
(* Bounds of the model.                                                    *)
(***************************************************************************)
\* Planner inputs: requested segment sizes are 1..FnMaxSegMB megabytes,
FnMaxSegMB == 3

\* requested concurrency is 0..FnMaxProc processes,
FnMaxProc == 4

\* disk budgets are 0..FnMaxDisk megabytes (0: no budget),
FnMaxDisk == 7

\* and file sizes reach FnMaxFileMB megabytes (and a part of one more).
FnMaxFileMB == 2040

\* Runs of slo_upload: the source file "a" is MaxFileMB megabytes less a half
\* (so its last segment is short), "b" one megabyte smaller;
MaxFileMB == 3

\* requested segment sizes are 1..MaxSegMB megabytes,
MaxSegMB == 2

\* requested concurrency is 0..MaxProc processes, under a disk budget of
\* 0..MaxSegMB megabytes (0: no budget),
MaxProc == 2

\* and slo_upload is started at most MaxRuns times over one temp directory.
MaxRuns == 2

\* Recovery logs given to update_segment_counter hold at most MaxLogLen lines ...
MaxLogLen == 3

\* ... each with a sequence number in 1..MaxSeqNo.
MaxSeqNo == 4

\* Logs read as text hold at most MaxRawLog lines ...
MaxRawLog == 2

\* ... whose first field, when a number, is in 1..MaxRawName.
MaxRawName == 2

\* Files cut into byte ranges by create_segment reach FnMaxRangeMB megabytes
\* (and a part of one more).
FnMaxRangeMB == 8

(***************************************************************************)
(* Arithmetic of the source.                                               *)
(***************************************************************************)
\* int(math.ceil(float(a) / float(b))) for a >= 0, b > 0.  The floats of the
\* source are exact for the sizes modelled (below 2^31).
Ceil(a, b) == (a \div b) + (IF a % b = 0 THEN 0 ELSE 1)

Max(a, b) == IF a >= b THEN a ELSE b

Min(a, b) == IF a <= b THEN a ELSE b

(***************************************************************************)
(* Segmentation planner.                                                   *)
(***************************************************************************)
\* A planner that finds a new segment size but keeps the old segment count.
check_segment_size_stale_total(file_size, segment_size) ==
    LET total_segments == Ceil(file_size, segment_size * MB)
    IN  IF total_segments > SegmentLimit
        THEN <<file_size, total_segments,
               Ceil(Ceil(file_size, SegmentLimit), MB)>>
        ELSE <<file_size, total_segments, segment_size>>

\* check_segment_size: <<file_size, total_segments, segment_size>>.
check_segment_size(file_size, segment_size) ==
    LET total_segments == Ceil(file_size, segment_size * MB)
    IN  IF total_segments > SegmentLimit
        THEN LET segment_size_bytes == Ceil(file_size, SegmentLimit)
                 new_size == Ceil(segment_size_bytes, MB)
             IN  <<file_size, Ceil(file_size, new_size * MB), new_size>>
        ELSE <<file_size, total_segments, segment_size>>

\* check_segment_size of the standalone script src/slo_upload.py: the new
\* segment size is int(math.ceil(file_size / 1000.0) / 1048576.0), which
\* int() cuts down to whole megabytes.
script_check_segment_size(file_size, segment_size) ==
    LET total_segments == Ceil(file_size, segment_size * MB)
    IN  IF total_segments > SegmentLimit
        THEN LET new_size == Ceil(file_size, SegmentLimit) \div MB
             IN  <<file_size, Ceil(file_size, new_size * MB), new_size>>
        ELSE <<file_size, total_segments, segment_size>>

\* A planner that forgets the clamp to one process.
update_concurrent_processes_no_clamp(concurrent_processes, segment_size, max_disk_space) ==
    IF /\ max_disk_space # 0
       /\ concurrent_processes * segment_size * MB > max_disk_space * MB
    THEN max_disk_space \div segment_size
    ELSE concurrent_processes

\* update_concurrent_processes: the number of processes that fit the budget.
\* The division of the source is Python 2's integer division.
update_concurrent_processes(concurrent_processes, segment_size, max_disk_space) ==
    LET reduced ==
            IF /\ max_disk_space # 0
               /\ concurrent_processes * segment_size * MB
                      > max_disk_space * MB
            THEN max_disk_space \div segment_size
            ELSE concurrent_processes
    IN  IF reduced = 0 THEN 1 ELSE reduced

(***************************************************************************)
(* Recovery log: the resume point.                                         *)
(***************************************************************************)
\* list.sort() on a list of integers: insertion of each element in turn.
RECURSIVE InsertSorted(_, _)
InsertSorted(x, s) ==
    IF s = <<>> THEN <<x>>
    ELSE IF x < Head(s) THEN <<x>> \o s
    ELSE <<Head(s)>> \o InsertSorted(x, Tail(s))

RECURSIVE SortInts(_)
SortInts(s) ==
    IF s = <<>> THEN <<>>
    ELSE InsertSorted(s[Len(s)], SortInts(SubSeq(s, 1, Len(s) - 1)))

\* The pairwise walk of update_segment_counter over the sorted list, from
\* index i (1-based here: the pair compared is segments[i], segments[i+1]).
RECURSIVE WalkSegments(_, _)
WalkSegments(segments, i) ==
    IF i >= Len(segments) THEN segments[Len(segments)] + 1
    ELSE IF segments[i] # segments[i + 1] - 1 THEN segments[i] + 1
    ELSE WalkSegments(segments, i + 1)

\* A resume point that repeats the last logged segment.
update_segment_counter_repeat_last(names) ==
    LET segments == SortInts(names)
    IN  IF Len(segments) = 0 THEN 1 ELSE segments[Len(segments)]

\* update_segment_counter over the sequence numbers of the log's lines, in
\* the order of the lines.
update_segment_counter(names) ==
    LET segments == SortInts(names)
    IN  IF Len(segments) = 0 THEN 1 ELSE WalkSegments(segments, 1)

(***************************************************************************)
(* State.                                                                  *)
(***************************************************************************)
VARIABLES
    \* The temp directory, which outlives a run:
    dirExists,      \* the directory exists
    cacheExists,    \* the file upload_cache exists in it
    upload_cache,   \* the lines of upload_cache, in the order written
    temp,           \* the names of the segment files in it
    manifestExists, \* the file manifest.json exists in it
    \* The storage service:
    segment_container, \* the container "<container>_segments" exists
    manifest_puts,  \* the put_object requests for the manifest, this run
    \* One run of slo_upload:
    pc,             \* where the orchestrator is
    runs,           \* how many times slo_upload was started
    args,           \* the dictionary args
    segment_counter, \* the local segment_counter of create_segments
    processes,      \* args["processes"], the list of started processes
    wstate,         \* where each worker process is
    lock,           \* the holder of args["lock"] (0: free)
    manifest,       \* the list create_manifest_file dumped to manifest.json
    commit,         \* the outcome of the manifest upload
    \* History of the run, for the statements about it:
    launched,       \* the segments a process was started for, in order
    hist,           \* what the run found in the log and was answered
    \* The pure functions' input and output (SpecFn):
    fnOp, fnArg, fnOut

diskVars == <<dirExists, cacheExists, upload_cache, temp, manifestExists>>

swiftVars == <<segment_container, manifest_puts>>

runVars == <<pc, runs, args, segment_counter, processes, wstate, lock,
             manifest, commit, launched, hist>>

fnVars == <<fnOp, fnArg, fnOut>>

vars == <<diskVars, swiftVars, runVars, fnVars>>

\* The source files a run may be given, by base name.  A destination path
\* "<base name>_segments/<name>" is modelled as the pair <<base name, name>>.
Files == {"a", "b"}

\* os.stat(filename).st_size
FileSize(filename) ==
    IF filename = "a" THEN MaxFileMB * MB - MB \div 2
    ELSE (MaxFileMB - 1) * MB - MB \div 2

\* Segment names, "%04d" % n, modelled as the numbers n.
Names == 1..MaxFileMB

NoArgs ==
    [filename |-> "", segment_size |-> 0, total_segments |-> 0,
     file_size |-> 0, concurrent_processes |-> 0, segment_counter |-> 0]

NoHist ==
    [found |-> "none", resume |-> "none", logged |-> -1, former |-> 0,
     planned |-> 0]

Stopped == {"idle", "exited", "crashed", "killed", "done"}

Alive(s) ==
    wstate[s] \in {"started", "materialized", "uploaded", "locked", "logged"}

Terminated(s) == wstate[s] \in {"done", "failed"}

(***************************************************************************)
(* Segments and log records.                                               *)
(***************************************************************************)
\* A seek that takes the segment's name for the number of segments before it.
SegmentOffset_from_name(a, name) == a.segment_size * MB * name

\* create_segment: the offset the source file is sought to ...
SegmentOffset(a, name) == a.segment_size * MB * (name - 1)

\* ... and the number of bytes the reads return from there.
SegmentBytes(a, name) ==
    Max(0, Min(a.segment_size * MB, a.file_size - SegmentOffset(a, name)))

\* The line log_segment writes: name, destination, checksum, size.  The md5
\* checksum is modelled as the bytes it is taken of: file, offset, length.
LogLine(a, name) ==
    [name |-> name,
     path |-> <<a.filename, name>>,
     etag |-> <<a.filename, SegmentOffset(a, name), SegmentBytes(a, name)>>,
     size |-> SegmentBytes(a, name)]

\* int(line.split(":")[0]) of every line
LineNames(cache) == [i \in 1..Len(cache) |-> cache[i].name]

\* get_filename: the base name in the destination of the first line.
get_filename(cache) == cache[1].path[1]

\* get_segment_size: the size in the first line, in whole megabytes.
get_segment_size(cache) == cache[1].size \div MB

\* get_segment_starting_point
get_segment_starting_point ==
    IF cacheExists THEN update_segment_counter(LineNames(upload_cache)) ELSE 1

\* get_user_confirmation up to the prompt to proceed: the changed args and
\* whether the temp directory was deleted.
get_user_confirmation(a, resume) ==
    IF a.segment_counter > 1
    THEN IF get_filename(upload_cache) # a.filename
         THEN [args |-> a, deleted |-> TRUE, asked |-> FALSE]
         ELSE IF resume = "no"
         THEN [args |-> [a EXCEPT !.segment_counter = 1],
               deleted |-> TRUE, asked |-> TRUE]
         ELSE [args |-> [a EXCEPT
                            !.segment_size = get_segment_size(upload_cache)],
               deleted |-> FALSE, asked |-> TRUE]
    ELSE [args |-> a, deleted |-> FALSE, asked |-> FALSE]

\* What a run with the planned arguments a finds in the log, for the
\* statements about resumed runs: k when the log holds exactly the lines such
\* a run writes for segments 1..k, each once, in any order; -1 otherwise.
CleanPrefix(a) ==
    LET k == Len(upload_cache)
    IN  IF /\ k <= a.total_segments
           /\ {upload_cache[i] : i \in 1..k} = {LogLine(a, n) : n \in 1..k}
        THEN k ELSE -1

\* create_manifest_entry
create_manifest_entry(line) ==
    [name |-> line.name, path |-> line.path, etag |-> line.etag,
     size_bytes |-> line.size]

\* sorted(manifest, key=name): a stable sort.
RECURSIVE InsertByName(_, _)
InsertByName(e, s) ==
    IF s = <<>> THEN <<e>>
    ELSE IF e.name < Head(s).name THEN <<e>> \o s
    ELSE <<Head(s)>> \o InsertByName(e, Tail(s))

RECURSIVE SortByName(_)
SortByName(s) ==
    IF s = <<>> THEN <<>>
    ELSE InsertByName(s[Len(s)], SortByName(SubSeq(s, 1, Len(s) - 1)))

\* The list create_manifest_file dumps: one entry per line of the log,
\* sorted by name, the name then deleted.
ManifestOf(cache) ==
    LET sorted == SortByName([i \in 1..Len(cache) |->
                                 create_manifest_entry(cache[i])])
    IN  [i \in 1..Len(sorted) |->
            [path |-> sorted[i].path, etag |-> sorted[i].etag,
             size_bytes |-> sorted[i].size_bytes]]

(***************************************************************************)
(* The orchestrator, slo_upload.                                           *)
(***************************************************************************)
\* shutil.rmtree of the temp directory
DeleteDirectory ==
    /\ dirExists' = FALSE
    /\ cacheExists' = FALSE
    /\ upload_cache' = <<>>
    /\ temp' = {}
    /\ manifestExists' = FALSE

\* The capacity test of create_segments.
AtCapacity_off_by_one == Len(processes) > args.concurrent_processes

AtCapacity == Len(processes) >= args.concurrent_processes

\* The process of slo_upload has ended, and its workers with it: what it held
\* in memory is gone.
ProcessEnded ==
    /\ args' = NoArgs
    /\ segment_counter' = 0
    /\ processes' = <<>>
    /\ wstate' = [s \in Names |-> "none"]
    /\ lock' = 0
    /\ manifest' = <<>>
    /\ launched' = <<>>
    /\ hist' = NoHist

\* A start that puts the segments container before the credentials are seen
\* to be invalid.
StartRunDenied_container_first ==
    /\ pc \in Stopped
    /\ runs < MaxRuns
    /\ runs' = runs + 1
    /\ pc' = "exited"
    /\ commit' = "none"
    /\ ProcessEnded
    /\ segment_container' = TRUE
    /\ manifest_puts' = 0
    /\ UNCHANGED <<diskVars, fnVars>>

\* slo_upload when validate_credentials exits: nothing else is done.
StartRunDenied ==
    /\ pc \in Stopped
    /\ runs < MaxRuns
    /\ runs' = runs + 1
    /\ pc' = "exited"
    /\ commit' = "none"
    /\ manifest_puts' = 0
    /\ ProcessEnded
    /\ UNCHANGED <<diskVars, segment_container, fnVars>>

\* slo_upload when the source file is missing: os.stat in check_segment_size
\* raises OSError, which nothing catches.
StartRunNoFile ==
    /\ pc \in Stopped
    /\ runs < MaxRuns
    /\ runs' = runs + 1
    /\ pc' = "crashed"
    /\ commit' = "none"
    /\ manifest_puts' = 0
    /\ ProcessEnded
    /\ UNCHANGED <<diskVars, segment_container, fnVars>>

\* slo_upload from its start to the loop of create_segments, the credentials
\* valid: planning, the resume point, the prompts, the temp directory.
StartRun(filename, segment_size, concurrent_processes, max_disk_space, resume, proceed) ==
    /\ pc \in Stopped
    /\ runs < MaxRuns
    /\ runs' = runs + 1
    /\ commit' = "none"
    /\ UNCHANGED fnVars
    /\ segment_container' = (segment_container \/ proceed = "yes")
    /\ manifest_puts' = 0
    /\ LET plan == check_segment_size(FileSize(filename), segment_size)
           a0 == [filename |-> filename,
                  segment_size |-> plan[3],
                  total_segments |-> plan[2],
                  file_size |-> plan[1],
                  concurrent_processes |->
                      update_concurrent_processes(
                          concurrent_processes, plan[3], max_disk_space),
                  segment_counter |-> get_segment_starting_point]
           conf == get_user_confirmation(a0, resume)
       IN  \* delete_directory in get_user_confirmation, and os.makedirs
           \* in create_segments once the user proceeds
           /\ dirExists' = IF proceed = "yes" THEN TRUE
                           ELSE dirExists /\ ~conf.deleted
           /\ cacheExists' = (cacheExists /\ ~conf.deleted)
           /\ upload_cache' = IF conf.deleted THEN <<>> ELSE upload_cache
           /\ temp' = IF conf.deleted THEN {} ELSE temp
           /\ manifestExists' = (manifestExists /\ ~conf.deleted)
           /\ IF proceed = "no"
              THEN \* exit(0)
                   /\ pc' = "exited"
                   /\ ProcessEnded
              ELSE /\ pc' = IF conf.args.segment_counter
                                 > conf.args.total_segments
                            THEN "join" ELSE "segments"
                   /\ args' = conf.args
                   /\ segment_counter' = conf.args.segment_counter
                   /\ processes' = <<>>
                   /\ wstate' = [s \in Names |-> "none"]
                   /\ lock' = 0
                   /\ manifest' = <<>>
                   /\ launched' = <<>>
                   /\ hist' =
                          [found |-> IF a0.segment_counter <= 1 THEN "none"
                                     ELSE IF conf.asked THEN "same"
                                     ELSE "other",
                           resume |-> IF conf.asked THEN resume ELSE "none",
                           logged |-> CleanPrefix(a0),
                           former |-> IF a0.segment_counter > 1
                                      THEN get_segment_size(upload_cache)
                                      ELSE 0,
                           planned |-> plan[3]]

\* A loop that counts two segments for each process it starts.
Launch_skips_one ==
    /\ pc = "segments"
    /\ segment_counter <= args.total_segments
    /\ ~AtCapacity
    /\ wstate' = [wstate EXCEPT ![segment_counter] = "started"]
    /\ processes' = <<segment_counter>> \o processes
    /\ launched' = Append(launched, segment_counter)
    /\ segment_counter' = segment_counter + 2
    /\ pc' = IF segment_counter + 2 > args.total_segments
             THEN "join" ELSE "segments"
    /\ UNCHANGED <<diskVars, runs, args, lock, manifest, commit, hist,
                   swiftVars, fnVars>>

\* create_segments, one pass of its loop with a free slot: start the process
\* of the next segment.
Launch ==
    /\ pc = "segments"
    /\ segment_counter <= args.total_segments
    /\ ~AtCapacity
    /\ wstate' = [wstate EXCEPT ![segment_counter] = "started"]
    /\ processes' = <<segment_counter>> \o processes
    /\ launched' = Append(launched, segment_counter)
    /\ segment_counter' = segment_counter + 1
    /\ pc' = IF segment_counter + 1 > args.total_segments
             THEN "join" ELSE "segments"
    /\ UNCHANGED <<diskVars, runs, args, lock, manifest, commit, hist,
                   swiftVars, fnVars>>

\* create_segments at capacity: pop the last process of the list and join it.
JoinAtCapacity ==
    /\ pc = "segments"
    /\ segment_counter <= args.total_segments
    /\ AtCapacity
    /\ processes # <<>>
    /\ Terminated(processes[Len(processes)])
    /\ processes' = SubSeq(processes, 1, Len(processes) - 1)
    /\ UNCHANGED <<diskVars, pc, runs, args, segment_counter, wstate, lock,
                   manifest, commit, launched, hist, swiftVars, fnVars>>

\* A join that returns at once, the process still running.
join_processes_no_wait ==
    /\ pc = "join"
    /\ processes # <<>>
    /\ processes' = SubSeq(processes, 1, Len(processes) - 1)
    /\ UNCHANGED <<diskVars, pc, runs, args, segment_counter, wstate, lock,
                   manifest, commit, launched, hist, swiftVars, fnVars>>

\* join_processes: pop and join until the list is empty.
join_processes ==
    /\ pc = "join"
    /\ processes # <<>>
    /\ Terminated(processes[Len(processes)])
    /\ processes' = SubSeq(processes, 1, Len(processes) - 1)
    /\ UNCHANGED <<diskVars, pc, runs, args, segment_counter, wstate, lock,
                   manifest, commit, launched, hist, swiftVars, fnVars>>

\* create_manifest_file: manifest.json is opened for writing, then the log is
\* read; a missing upload_cache is an IOError nothing catches.
create_manifest_file ==
    /\ pc = "join"
    /\ processes = <<>>
    /\ manifestExists' = TRUE
    /\ IF cacheExists
       THEN /\ manifest' = ManifestOf(upload_cache)
            /\ pc' = "upload"
            /\ UNCHANGED <<args, segment_counter, processes, wstate, lock,
                           launched, hist>>
       ELSE /\ pc' = "crashed"
            /\ ProcessEnded
    /\ UNCHANGED <<dirExists, cacheExists, upload_cache, temp, runs, commit,
                   swiftVars, fnVars>>

\* upload_manifest_file, then delete_directory(temp_directory): put_object is
\* called once; its exception is caught and printed, and slo_upload goes on.
upload_manifest_file(ok) ==
    /\ pc = "upload"
    /\ manifest_puts' = manifest_puts + 1
    /\ commit' = IF ok THEN "ok" ELSE "failed"
    /\ DeleteDirectory
    /\ pc' = "done"
    /\ ProcessEnded
    /\ UNCHANGED <<runs, segment_container, fnVars>>

\* The run is stopped from outside, its processes with it; the temp directory
\* stays as it is.
Interrupt ==
    /\ pc \in {"segments", "join", "upload"}
    /\ pc' = "killed"
    /\ ProcessEnded
    /\ UNCHANGED <<diskVars, runs, commit, swiftVars, fnVars>>

(***************************************************************************)
(* A worker, process_segment.                                              *)
(***************************************************************************)
\* create_segment: the segment file is written; a failure ends the process,
\* with the file not yet opened or opened and short.
create_segment(s, ok, opened) ==
    /\ wstate[s] = "started"
    /\ wstate' = [wstate EXCEPT ![s] = IF ok THEN "materialized" ELSE "failed"]
    /\ temp' = IF ok \/ opened THEN temp \cup {s} ELSE temp
    /\ UNCHANGED <<dirExists, cacheExists, upload_cache, manifestExists, pc,
                   runs, args, segment_counter, processes, lock, manifest,
                   commit, launched, hist, swiftVars, fnVars>>

\* upload_segment: put_object returns or raises.
upload_segment(s, ok) ==
    /\ wstate[s] = "materialized"
    /\ wstate' = [wstate EXCEPT ![s] = IF ok THEN "uploaded" ELSE "failed"]
    /\ UNCHANGED <<diskVars, pc, runs, args, segment_counter, processes, lock,
                   manifest, commit, launched, hist, swiftVars, fnVars>>

\* An acquire that does not wait for the lock to be free.
log_segment_acquire_no_wait(s) ==
    /\ wstate[s] = "uploaded"
    /\ lock' = s
    /\ wstate' = [wstate EXCEPT ![s] = "locked"]
    /\ UNCHANGED <<diskVars, pc, runs, args, segment_counter, processes,
                   manifest, commit, launched, hist, swiftVars, fnVars>>

\* log_segment: args["lock"].acquire()
log_segment_acquire(s) ==
    /\ wstate[s] = "uploaded"
    /\ lock = 0
    /\ lock' = s
    /\ wstate' = [wstate EXCEPT ![s] = "locked"]
    /\ UNCHANGED <<diskVars, pc, runs, args, segment_counter, processes,
                   manifest, commit, launched, hist, swiftVars, fnVars>>

\* log_segment: upload_cache is opened for appending, the line is computed
\* and written, the lock released.  A failure to compute the line (the
\* checksum, the size) ends the process after the open, the lock held.
log_segment_write(s, ok) ==
    /\ wstate[s] = "locked"
    /\ cacheExists' = TRUE
    /\ IF ok
       THEN /\ upload_cache' = Append(upload_cache, LogLine(args, s))
            /\ lock' = 0
            /\ wstate' = [wstate EXCEPT ![s] = "logged"]
       ELSE /\ wstate' = [wstate EXCEPT ![s] = "failed"]
            /\ UNCHANGED <<upload_cache, lock>>
    /\ UNCHANGED <<dirExists, temp, manifestExists, pc, runs, args,
                   segment_counter, processes, manifest, commit, launched,
                   hist, swiftVars, fnVars>>

\* A worker that deletes its segment file as soon as it is uploaded.
delete_file_unlogged(s) ==
    /\ wstate[s] \in {"uploaded", "logged"}
    /\ temp' = temp \ {s}
    /\ wstate' = [wstate EXCEPT ![s] = "done"]
    /\ UNCHANGED <<dirExists, cacheExists, upload_cache, manifestExists, pc,
                   runs, args, segment_counter, processes, lock, manifest,
                   commit, launched, hist, swiftVars, fnVars>>

\* delete_file and exit(0)
delete_file(s) ==
    /\ wstate[s] = "logged"
    /\ temp' = temp \ {s}
    /\ wstate' = [wstate EXCEPT ![s] = "done"]
    /\ UNCHANGED <<dirExists, cacheExists, upload_cache, manifestExists, pc,
                   runs, args, segment_counter, processes, lock, manifest,
                   commit, launched, hist, swiftVars, fnVars>>

(***************************************************************************)
(* Spec: runs of slo_upload over one temp directory.                       *)
(***************************************************************************)
Init ==
    /\ dirExists = FALSE
    /\ cacheExists = FALSE
    /\ upload_cache = <<>>
    /\ temp = {}
    /\ manifestExists = FALSE
    /\ segment_container = FALSE
    /\ manifest_puts = 0
    /\ pc = "idle"
    /\ runs = 0
    /\ args = NoArgs
    /\ segment_counter = 0
    /\ processes = <<>>
    /\ wstate = [s \in Names |-> "none"]
    /\ lock = 0
    /\ manifest = <<>>
    /\ commit = "none"
    /\ launched = <<>>
    /\ hist = NoHist
    /\ fnOp = "none"
    /\ fnArg = <<>>
    /\ fnOut = <<>>

Answers == {"yes", "no"}

Start ==
    \E filename \in Files, segment_size \in 1..MaxSegMB,
       concurrent_processes \in 0..MaxProc, max_disk_space \in 0..MaxSegMB,
       resume \in Answers, proceed \in Answers :
        StartRun(filename, segment_size, concurrent_processes, max_disk_space,
                 resume, proceed)

Worker ==
    \E s \in Names :
        \/ \E ok \in BOOLEAN, opened \in BOOLEAN : create_segment(s, ok, opened)
        \/ \E ok \in BOOLEAN : upload_segment(s, ok)
        \/ log_segment_acquire(s)
        \/ \E ok \in BOOLEAN : log_segment_write(s, ok)
        \/ delete_file(s)

Next ==
    \/ StartRunDenied
    \/ StartRunNoFile
    \/ Start
    \/ Launch
    \/ JoinAtCapacity
    \/ join_processes
    \/ create_manifest_file
    \/ \E ok \in BOOLEAN : upload_manifest_file(ok)
    \/ Interrupt
    \/ Worker

Spec == Init /\ [][Next]_vars

(***************************************************************************)
(* SpecLive: runs nothing stops from outside, every process scheduled.     *)
(***************************************************************************)
\* The steps of the worker of segment s.
WorkerStep(s) ==
    \/ \E ok \in BOOLEAN, opened \in BOOLEAN : create_segment(s, ok, opened)
    \/ \E ok \in BOOLEAN : upload_segment(s, ok)
    \/ log_segment_acquire(s)
    \/ \E ok \in BOOLEAN : log_segment_write(s, ok)
    \/ delete_file(s)

LiveNext ==
    \/ StartRunDenied
    \/ StartRunNoFile
    \/ Start
    \/ Launch
    \/ JoinAtCapacity
    \/ join_processes
    \/ create_manifest_file
    \/ \E ok \in BOOLEAN : upload_manifest_file(ok)
    \/ \E s \in Names : WorkerStep(s)

\* The operating system schedules every process: the orchestrator takes its
\* next step when it has one, and so does every worker; each step of a worker
\* ends, well or with an error.
Fairness ==
    /\ WF_vars(Launch)
    /\ WF_vars(JoinAtCapacity)
    /\ WF_vars(join_processes)
    /\ WF_vars(create_manifest_file)
    /\ WF_vars(\E ok \in BOOLEAN : upload_manifest_file(ok))
    /\ \A s \in Names : WF_vars(WorkerStep(s))

SpecLive == Init /\ [][LiveNext]_vars /\ Fairness

(***************************************************************************)
(* Claims about runs, checked under Spec.                                  *)
(***************************************************************************)
\* The run is past create_segments: every process it starts is started.
PastSegments == pc \in {"join", "upload"}

AliveWorkers == {s \in Names : Alive(s)}

NoWorkerFailed == \A s \in Names : wstate[s] # "failed"

\* The arguments as planned, before get_user_confirmation changed them.
PlannedArgs == [args EXCEPT !.segment_size = hist.planned]

\* The manifest of a run of the planned arguments that nothing interrupts and
\* in which every worker succeeds.
ExpectedManifest ==
    [n \in 1..args.total_segments |->
        [path |-> LogLine(PlannedArgs, n).path,
         etag |-> LogLine(PlannedArgs, n).etag,
         size_bytes |-> LogLine(PlannedArgs, n).size]]

\* C1: whenever a run reaches the manifest commit, the manifest has exactly
\* total_segments entries, the entry of sequence number n at place n.
C1_ManifestComplete ==
    pc = "upload" =>
        /\ Len(manifest) = args.total_segments
        /\ \A i \in 1..Len(manifest) : manifest[i].path[2] = i

\* C2: in create_segments and join_processes, the processes started and not
\* yet terminated are at most concurrent_processes.
C2_ConcurrencyBound ==
    pc \in {"segments", "join"} =>
        Cardinality(AliveWorkers) <= args.concurrent_processes

\* Two processes run while a third segment was started: create_segments
\* waited for a slot.
C2_Witness ==
    /\ pc = "join"
    /\ args.concurrent_processes = 2
    /\ Len(launched) = 3
    /\ Cardinality(AliveWorkers) = 2

\* C3: at every instant of a run, at most concurrent_processes segment files
\* exist in the temp directory.
C3_TempFilesBound ==
    pc \in {"segments", "join", "upload"} =>
        Cardinality(temp) <= args.concurrent_processes

\* C5: a run that finds exactly the lines of segments 1..k of its own file
\* and segment size in the log, and is told to resume, starts processes for
\* k+1..total_segments and no others; when none of them fails, the manifest
\* it commits is the manifest of an uninterrupted run.
C5_ResumeEquivalent ==
    (/\ hist.logged >= 0
     /\ hist.found = "same" => hist.resume = "yes"
     /\ pc \in {"segments", "join", "upload"}) =>
        /\ \A i \in 1..Len(launched) : launched[i] = hist.logged + i
        /\ Len(launched) <= args.total_segments - hist.logged
        /\ PastSegments => Len(launched) = args.total_segments - hist.logged
        /\ (pc = "upload" /\ NoWorkerFailed) => manifest = ExpectedManifest

\* A resumed run that found segment 1 logged, started the other two and
\* built its manifest.
C5_Witness ==
    /\ pc = "upload"
    /\ hist.found = "same"
    /\ hist.resume = "yes"
    /\ hist.logged = 1
    /\ launched = <<2, 3>>
    /\ NoWorkerFailed
    /\ manifest = ExpectedManifest

\* C6: a run that finds the log of another source file discards it and starts
\* from sequence 1: every segment of its own file is started, and no line of
\* the old log reaches the manifest.
C6_OtherFileRestarts ==
    (hist.found = "other" /\ PastSegments) =>
        /\ launched = [i \in 1..args.total_segments |-> i]
        /\ \A i \in 1..Len(manifest) : manifest[i].path[1] = args.filename

\* C7: a run that finds a log of its own file with another segment size than
\* the one planned discards the log and restarts from sequence 1, so that
\* every line in the log is a line of the planned segment size.
C7_OtherSizeRestarts ==
    (/\ hist.found = "same"
     /\ hist.resume = "yes"
     /\ hist.former # hist.planned
     /\ pc \in {"segments", "join", "upload"}) =>
        /\ args.segment_counter = 1
        /\ \A i \in 1..Len(upload_cache) :
               upload_cache[i] = LogLine(PlannedArgs, upload_cache[i].name)

\* C8: after a failed manifest upload the recovery log, the manifest file
\* and the temp directory are still there.
C8_FailedCommitKeepsState ==
    (pc = "done" /\ commit = "failed") =>
        dirExists /\ cacheExists /\ manifestExists

\* The log is the log of one session: every line in it is a line that a run
\* of one source file and one segment size writes.
OneSession ==
    \E f \in Files, S \in 1..MaxSegMB :
        LET plan == check_segment_size(FileSize(f), S)
            a == [NoArgs EXCEPT !.filename = f, !.file_size = plan[1],
                                !.total_segments = plan[2],
                                !.segment_size = plan[3]]
        IN  \A i \in 1..Len(upload_cache) :
                /\ upload_cache[i].name \in 1..a.total_segments
                /\ upload_cache[i] = LogLine(a, upload_cache[i].name)

\* C12: in every state, over a first run and the runs that resume it, no
\* sequence number is in two lines of the log of one session.
C12_LoggedOnce ==
    OneSession =>
        \A i, j \in 1..Len(upload_cache) :
            i # j => upload_cache[i].name # upload_cache[j].name

\* The run is between the answer yes to the prompt to proceed and its end.
Proceeding == pc \in {"segments", "join", "upload"}

\* Segment work is under way: a worker was started or is in some step.
SegmentWork ==
    \/ launched # <<>>
    \/ processes # <<>>
    \/ \E s \in Names : wstate[s] # "none"

\* C13: segment work is found only in a run that validated the credentials,
\* planned and was answered yes; a start of slo_upload that ends at once
\* (invalid credentials, a missing source file, the answer no) puts no
\* segments container, starts no worker, writes no segment file and appends
\* nothing to the log.
C13_NoWorkBeforeYes ==
    /\ [](SegmentWork => Proceeding)
    /\ [][(pc \in Stopped /\ pc' \in {"exited", "crashed"}) =>
            /\ segment_container' = segment_container
            /\ ~SegmentWork'
            /\ temp' \subseteq temp
            /\ upload_cache' \in {upload_cache, <<>>}]_vars

\* A second start ended at once, over the temp directory an interrupted run
\* left: the log and a segment file are as they were left.
C13_Witness ==
    /\ pc \in {"exited", "crashed"}
    /\ runs = 2
    /\ ~SegmentWork
    /\ upload_cache # <<>>
    /\ temp # {}

\* The sequence numbers of the lines of the log.
Logged == {upload_cache[i].name : i \in 1..Len(upload_cache)}

\* C14: a worker takes its steps in the order materialize, upload, log,
\* purge.  Its line is appended only once its upload returned, by it alone
\* and as the line of its segment; its segment file is deleted only once its
\* line is in the log; a worker that fails in materialize or upload appends
\* nothing, then or later.
C14_WorkerOrder ==
    [][\A s \in Names :
          /\ (wstate'[s] = "materialized" /\ wstate[s] # "materialized") =>
                 wstate[s] = "started" /\ s \in temp'
          /\ (wstate'[s] = "uploaded" /\ wstate[s] # "uploaded") =>
                 wstate[s] = "materialized" /\ s \in temp
          /\ (wstate'[s] = "locked" /\ wstate[s] # "locked") =>
                 wstate[s] = "uploaded"
          /\ (wstate'[s] = "logged" /\ wstate[s] # "logged") =>
                 /\ wstate[s] = "locked"
                 /\ upload_cache' = Append(upload_cache, LogLine(args, s))
          /\ (wstate'[s] = "done" /\ wstate[s] # "done") =>
                 wstate[s] = "logged" /\ s \in Logged /\ s \notin temp'
          /\ (Proceeding /\ Proceeding' /\ s \in temp /\ s \notin temp') =>
                 wstate[s] = "logged" /\ s \in Logged
          /\ (wstate[s] \in {"started", "materialized"}
                 /\ wstate'[s] = "failed") => upload_cache' = upload_cache
          /\ wstate[s] = "failed" => wstate'[s] \in {"failed", "none"}
          /\ (Proceeding /\ Proceeding' /\ upload_cache' # upload_cache) =>
                 \E t \in Names : wstate[t] = "locked" /\ wstate'[t] = "logged"
      ]_vars

\* One worker went through its four steps, its line in the log and its file
\* gone; another failed before logging, its file left and no line of it.
C14_Witness ==
    \E s, t \in Names :
        /\ wstate[s] = "done"
        /\ s \in Logged
        /\ s \notin temp
        /\ wstate[t] = "failed"
        /\ t \in temp
        /\ t \notin Logged

\* C15: when create_manifest_file starts to read the log (every process is
\* joined), the log holds exactly the sequence numbers 1..total_segments,
\* each once, also in a run in which a worker failed.
C15_LogCompleteAtAssembly ==
    (pc = "join" /\ processes = <<>>) =>
        /\ cacheExists
        /\ Logged = 1..args.total_segments
        /\ Len(upload_cache) = args.total_segments

\* The sequence numbers a process was started for in this run.
Launched == {launched[i] : i \in 1..Len(launched)}

\* C16: a run of the same file and segment size that is told to resume
\* starts a process for every sequence number of 1..total_segments that has
\* no line in the log, whatever the log holds.  Only started processes append
\* lines, so once create_segments is over every sequence number either was
\* started or has a line.
C16_MissingAreRelaunched ==
    (/\ hist.found = "same"
     /\ hist.resume = "yes"
     /\ hist.former = hist.planned
     /\ PastSegments) =>
        \A n \in 1..args.total_segments : n \in Launched \/ n \in Logged

\* C17: within a run, create_segments starts one process for each sequence
\* number from the resume point (args["segment_counter"]) to total_segments,
\* in ascending order, and none outside that range: no sequence number has
\* two processes.
C17_LaunchedOnceInOrder ==
    Proceeding =>
        /\ \A i \in 1..Len(launched) :
               /\ launched[i] = args.segment_counter + i - 1
               /\ launched[i] <= args.total_segments
        /\ PastSegments =>
               Len(launched)
                   = Max(0, args.total_segments - args.segment_counter + 1)
        /\ \A n \in Names : wstate[n] # "none" => n \in Launched

\* A run resumed over a log with a gap (segments 1 and 3 logged) started
\* segments 2 and 3, and no other.
C17_Witness ==
    /\ PastSegments
    /\ hist.logged = -1
    /\ args.segment_counter = 2
    /\ launched = <<2, 3>>
    /\ \A n \in Names : wstate[n] # "none" <=> n \in {2, 3}

\* The processes in args["processes"]: started and not yet joined.
Unjoined == {processes[i] : i \in 1..Len(processes)}

\* C18: create_manifest_file starts only when no worker started in the run
\* is still running.  Every started worker that has not been joined is in
\* args["processes"], a worker is taken off that list only when it has ended,
\* and the log is read only when the list is empty.
C18_AssemblyAfterJoin ==
    /\ [](Proceeding =>
            /\ \A n \in Launched : Alive(n) => n \in Unjoined
            /\ \A n \in Launched \ Unjoined : Terminated(n))
    /\ [](pc = "upload" => \A n \in Launched : Terminated(n))
    /\ [][(pc = "join" /\ pc' # "join" /\ pc' # "killed") =>
            /\ processes = <<>>
            /\ \A n \in Launched : Terminated(n)]_vars

\* The manifest was assembled in a run of three workers, two at a time: one
\* was joined in create_segments, the others in join_processes.
C18_Witness ==
    /\ pc = "upload"
    /\ args.concurrent_processes = 2
    /\ launched = <<1, 2, 3>>
    /\ processes = <<>>
    /\ \A n \in Launched : Terminated(n)

\* C19: with every process scheduled and every step ending, every started
\* worker ends, and the orchestrator does not wait for ever: a run in
\* create_segments or join_processes gets to manifest assembly (which builds
\* the manifest to commit, or finds no log).
C19_WorkersEndAndRunGoesOn ==
    /\ \A s \in Names : Alive(s) ~> ~Alive(s)
    /\ (pc \in {"segments", "join"}) ~> (pc \notin {"segments", "join"})

\* The workers between acquire() and release() in log_segment.
InLogSegment == {s \in Names : wstate[s] = "locked"}

\* C20: access to the log is serialized.  At most one worker is inside the
\* append of log_segment, and it holds the lock; a step of a run that changes
\* the log appends one whole line, the line of the worker holding the lock;
\* the log is read (resume point and session check at the start of a run,
\* manifest assembly) only when no worker is running.
C20_LogSerialized ==
    /\ [](/\ Cardinality(InLogSegment) <= 1
          /\ \A s \in InLogSegment : lock = s)
    /\ [][(Proceeding /\ Proceeding' /\ upload_cache' # upload_cache) =>
            /\ lock \in InLogSegment
            /\ upload_cache' = Append(upload_cache, LogLine(args, lock))
            /\ lock' = 0]_vars
    /\ [][((pc \in Stopped /\ pc' \notin Stopped)
               \/ (pc = "join" /\ pc' \in {"upload", "crashed"})) =>
            AliveWorkers = {}]_vars

\* One worker is inside log_segment while another, its upload done, waits
\* for the lock.
C20_Witness ==
    \E s, t \in Names :
        /\ s # t
        /\ wstate[s] = "locked"
        /\ lock = s
        /\ wstate[t] = "uploaded"

\* C22: when the upload of the manifest fails, upload_manifest_file uploads
\* it again, up to 9 times, before it gives up: a run that ends with the
\* manifest not committed has sent it 1 + 9 times.
C22_ManifestRetried ==
    (pc = "done" /\ commit = "failed") =>
        manifest_puts = 1 + ManifestRetries

\* C24: a worker that acquired the lock of the log releases it on every way
\* out of log_segment, also when the checksum, the size or the write fails:
\* the lock is held only by a worker that is between acquire and release.
C24_LockReleasedOnEveryPath ==
    lock # 0 => wstate[lock] = "locked"

\* C25: whenever a worker is started, the segment size create_segment cuts
\* with and the total_segments that ends the loop of create_segments agree:
\* total_segments = ceil(file_size / (segment_size MB)), also in a resumed
\* run that took its segment size from the log.
C25_TotalMatchesSegmentSize ==
    (Proceeding /\ launched # <<>>) =>
        /\ args.segment_size >= 1
        /\ args.total_segments
               = Ceil(args.file_size, args.segment_size * MB)

\* C26: for a log written by a run of segment size S, in whatever order the
\* workers logged, get_segment_size returns S.  A run that found no log has
\* written every line of the log itself.
C26_SegmentSizeFromLog ==
    (Proceeding /\ hist.found = "none" /\ upload_cache # <<>>) =>
        get_segment_size(upload_cache) = args.segment_size

(***************************************************************************)
(* SpecFn: the pure functions applied to bounded inputs.                   *)
(***************************************************************************)
\* File sizes given to check_segment_size, in bytes: every whole number of
\* megabytes, one byte more, and one byte short of the next.
PlannerSizes ==
    {q * MB + r : q \in 0..FnMaxFileMB, r \in {0, 1, MB - 1}}

RECURSIVE SeqsUpTo(_, _)
SeqsUpTo(S, n) ==
    IF n = 0 THEN {<<>>}
    ELSE LET shorter == SeqsUpTo(S, n - 1)
         IN  shorter \cup {Append(s, x) : s \in shorter, x \in S}

\* A line of upload_cache as text: the fields line.split(":") returns, each
\* <<"int", n>> (text that int() reads as n) or <<"text", id>> (other text).
\* A whole line has four fields: name, destination, checksum, size.
WholeLines ==
    {<<name, <<"text", 1>>, <<"text", 2>>, size>> :
        name \in {<<"int", n>> : n \in 1..MaxRawName} \cup {<<"text", 0>>},
        size \in {<<"int", MB>>, <<"text", 0>>}}

\* The lines a log may hold: whole lines and lines cut short after a field.
RawLines == {SubSeq(l, 1, k) : l \in WholeLines, k \in 1..4}

\* int(field) returns rather than raises ValueError.
IsInt(field) == field[1] = "int"

\* The start of slo_upload over a log of the run's own file, the resume
\* confirmed: update_segment_counter reads the first field of every line as
\* a number; past a resume point of 1, get_filename reads the second field
\* of the first line and get_segment_size the fourth as a number.
StartOnLog(lines) ==
    IF \E i \in 1..Len(lines) : ~IsInt(lines[i][1])
    THEN <<"raised">>
    ELSE LET counter ==
                 update_segment_counter([i \in 1..Len(lines) |-> lines[i][1][2]])
         IN  IF counter > 1 /\ Len(lines[1]) < 2 THEN <<"raised">>
             ELSE IF counter > 1 /\ (Len(lines[1]) < 4 \/ ~IsInt(lines[1][4]))
             THEN <<"raised">>
             ELSE <<"returned", counter>>

\* File sizes cut into segments, in bytes.
RangeSizes ==
    {q * MB + r : q \in 0..FnMaxRangeMB, r \in {0, 1, MB - 1}}

FnInputs ==
    [op : {"update_segment_counter"}, arg : SeqsUpTo(1..MaxSeqNo, MaxLogLen)]
    \cup [op : {"start_on_log"},
          arg : SeqsUpTo(RawLines, MaxRawLog) \ {<<>>}]
    \cup [op : {"create_segment"},
          arg : {<<f, s>> : f \in RangeSizes, s \in 1..FnMaxSegMB}]
    \cup [op : {"check_segment_size"},
          arg : {<<f, s>> : f \in PlannerSizes, s \in 1..FnMaxSegMB}]
    \cup [op : {"script_check_segment_size"},
          arg : {<<f, s>> : f \in PlannerSizes, s \in 1..FnMaxSegMB}]
    \cup [op : {"update_concurrent_processes"},
          arg : {<<c, s, d>> : c \in 0..FnMaxProc, s \in 1..FnMaxSegMB,
                               d \in 0..FnMaxDisk}]

FnInit ==
    /\ dirExists = FALSE
    /\ cacheExists = FALSE
    /\ upload_cache = <<>>
    /\ temp = {}
    /\ manifestExists = FALSE
    /\ segment_container = FALSE
    /\ manifest_puts = 0
    /\ pc = "idle"
    /\ runs = 0
    /\ args = NoArgs
    /\ segment_counter = 0
    /\ processes = <<>>
    /\ wstate = [s \in Names |-> "none"]
    /\ lock = 0
    /\ manifest = <<>>
    /\ commit = "none"
    /\ launched = <<>>
    /\ hist = NoHist
    /\ \E in \in FnInputs :
        /\ fnOp = in.op
        /\ fnArg = in.arg
        /\ fnOut = <<>>

ApplyUpdateSegmentCounter ==
    /\ fnOp = "update_segment_counter"
    /\ fnOut = <<>>
    /\ fnOut' = <<update_segment_counter(fnArg)>>
    /\ UNCHANGED <<fnOp, fnArg, diskVars, swiftVars, runVars>>

ApplyCheckSegmentSize ==
    /\ fnOp = "check_segment_size"
    /\ fnOut = <<>>
    /\ fnOut' = check_segment_size(fnArg[1], fnArg[2])
    /\ UNCHANGED <<fnOp, fnArg, diskVars, swiftVars, runVars>>

ApplyScriptCheckSegmentSize ==
    /\ fnOp = "script_check_segment_size"
    /\ fnOut = <<>>
    /\ fnOut' = script_check_segment_size(fnArg[1], fnArg[2])
    /\ UNCHANGED <<fnOp, fnArg, diskVars, swiftVars, runVars>>

ApplyUpdateConcurrentProcesses ==
    /\ fnOp = "update_concurrent_processes"
    /\ fnOut = <<>>
    /\ fnOut' = <<update_concurrent_processes(fnArg[1], fnArg[2], fnArg[3])>>
    /\ UNCHANGED <<fnOp, fnArg, diskVars, swiftVars, runVars>>

\* The planner, then create_segment for every segment of the plan: the byte
\* range <<offset, length>> each segment file is written from.
ApplyCreateSegment ==
    /\ fnOp = "create_segment"
    /\ fnOut = <<>>
    /\ fnOut' =
           LET plan == check_segment_size(fnArg[1], fnArg[2])
               a == [NoArgs EXCEPT !.file_size = plan[1],
                                   !.total_segments = plan[2],
                                   !.segment_size = plan[3]]
           IN  <<[n \in 1..a.total_segments |->
                    <<SegmentOffset(a, n), SegmentBytes(a, n)>>]>>
    /\ UNCHANGED <<fnOp, fnArg, diskVars, swiftVars, runVars>>

ApplyStartOnLog ==
    /\ fnOp = "start_on_log"
    /\ fnOut = <<>>
    /\ fnOut' = StartOnLog(fnArg)
    /\ UNCHANGED <<fnOp, fnArg, diskVars, swiftVars, runVars>>

FnNext ==
    \/ ApplyUpdateSegmentCounter
    \/ ApplyStartOnLog
    \/ ApplyCreateSegment
    \/ ApplyCheckSegmentSize
    \/ ApplyScriptCheckSegmentSize
    \/ ApplyUpdateConcurrentProcesses

SpecFn == FnInit /\ [][FnNext]_vars

(***************************************************************************)
(* Claims about the pure functions, checked under SpecFn.                  *)
(***************************************************************************)
Applied(op) == fnOp = op /\ fnOut # <<>>

\* The smallest n >= 1 that is not a sequence number of the log.
FirstMissing(names) ==
    LET present == {names[i] : i \in 1..Len(names)}
    IN  CHOOSE n \in 1..(Len(names) + 1) :
            /\ n \notin present
            /\ \A m \in 1..(n - 1) : m \in present

\* C4: for every log content, in any order, with or without repeated
\* sequence numbers and whether or not sequence 1 is present,
\* update_segment_counter returns the smallest n >= 1 that is not in the log.
C4_ResumePointIsFirstMissing ==
    Applied("update_segment_counter") => fnOut[1] = FirstMissing(fnArg)

\* C9: check_segment_size returns the file size, and total = ceil(F/(S MB))
\* with S unchanged when that is at most 1000; otherwise the smallest whole
\* number of megabytes S' with ceil(F/(S' MB)) <= 1000, and the total for S'.
\* The total returned is at most 1000 in both cases.
C9_CheckSegmentSize ==
    Applied("check_segment_size") =>
        LET F == fnArg[1]
            S == fnArg[2]
            total == fnOut[2]
            newS == fnOut[3]
        IN  /\ fnOut[1] = F
            /\ total <= SegmentLimit
            /\ total = Ceil(F, newS * MB)
            /\ IF Ceil(F, S * MB) <= SegmentLimit
               THEN newS = S
               ELSE /\ newS >= 1
                    /\ Ceil(F, newS * MB) <= SegmentLimit
                    /\ \A s \in 1..(newS - 1) : Ceil(F, s * MB) > SegmentLimit

\* A file that needs more than 1000 segments at the requested size and is
\* planned with three-megabyte segments instead.
C9_Witness ==
    /\ Applied("check_segment_size")
    /\ Ceil(fnArg[1], fnArg[2] * MB) > SegmentLimit
    /\ fnOut[3] = 3
    /\ fnOut[3] > fnArg[2]

\* C10: update_concurrent_processes returns C when D = 0 or C*S <= D (1 for
\* C = 0), floor(D/S) when D > 0, C*S > D and floor(D/S) >= 1, and 1 when
\* that floor is below 1; the result is at least 1 and at most max(C, 1).
C10_UpdateConcurrentProcesses ==
    Applied("update_concurrent_processes") =>
        LET C == fnArg[1]
            S == fnArg[2]
            D == fnArg[3]
            out == fnOut[1]
        IN  /\ out >= 1
            /\ out <= Max(C, 1)
            /\ (D = 0 \/ C * S <= D) => out = (IF C = 0 THEN 1 ELSE C)
            /\ (D > 0 /\ C * S > D /\ D \div S >= 1) => out = D \div S
            /\ (D > 0 /\ C * S > D /\ D \div S < 1) => out = 1

\* A budget that cuts the requested concurrency to a floor above one.
C10_Witness ==
    /\ Applied("update_concurrent_processes")
    /\ fnArg[3] > 0
    /\ fnArg[1] * fnArg[2] > fnArg[3]
    /\ fnArg[3] % fnArg[2] # 0
    /\ fnOut[1] = fnArg[3] \div fnArg[2]
    /\ fnOut[1] >= 2

\* C11: for every file size F and segment size S, with total = ceil(F/(S MB)),
\* the byte ranges of segments 1..total are [(n-1) S MB, min(n S MB, F)): each
\* is non-empty, each starts where the one before ends, no two overlap, the
\* first starts at 0 and the last ends at F.
C11_RangesCoverFile ==
    Applied("create_segment") =>
        LET F == fnArg[1]
            S == fnArg[2]
            total == Ceil(F, S * MB)
            range == fnOut[1]
            from(n) == range[n][1]
            to(n) == range[n][1] + range[n][2]
        IN  /\ Len(range) = total
            /\ \A n \in 1..total :
                   /\ from(n) = (n - 1) * S * MB
                   /\ to(n) = Min(n * S * MB, F)
                   /\ from(n) < to(n)
            /\ \A n \in 1..(total - 1) : to(n) = from(n + 1)
            /\ \A m, n \in 1..total :
                   m < n => to(m) <= from(n)
            /\ total > 0 => from(1) = 0 /\ to(total) = F
            /\ total = 0 => F = 0

\* A file cut into three or more segments of two megabytes or more, the last
\* of them short.
C11_Witness ==
    /\ Applied("create_segment")
    /\ fnArg[2] >= 2
    /\ Len(fnOut[1]) >= 3
    /\ fnArg[1] % (fnArg[2] * MB) # 0
    /\ fnOut[1][Len(fnOut[1])][2] < fnArg[2] * MB

\* A line that parses as a complete record: four fields, the sequence number
\* and the size numbers.
CompleteRecord(line) == Len(line) = 4 /\ IsInt(line[1]) /\ IsInt(line[4])

\* C21: when a line of an existing upload_cache does not parse as a complete
\* record, the start of the run raises: no resume point is returned from
\* such a log and no worker is started.
C21_BadLineIsFatal ==
    (/\ Applied("start_on_log")
     /\ \E i \in 1..Len(fnArg) : ~CompleteRecord(fnArg[i])) =>
        fnOut[1] = "raised"

\* C23: check_segment_size of src/slo_upload.py returns a total of at most
\* 1000 segments for every file size and every requested segment size of
\* 1 MB or more.
C23_ScriptMeetsSegmentLimit ==
    Applied("script_check_segment_size") => fnOut[2] <= SegmentLimit

=============================================================================
